---- MODULE Spec2Model ----
(***************************************************************************)
(* The consul registration facade (wrapper), its Broker backend and the    *)
(* metrics endpoint goroutine, as a state machine.                         *)
(*                                                                         *)
(* Strings the code takes apart (the listen address, the environment       *)
(* entries) are sequences; strings it only passes on are TLA+ strings.     *)
(* A Go error is a record: nil, a plain error with a text, or the result   *)
(* of fmt.Errorf with its format, the id formatted into it and the text    *)
(* of its cause.                                                           *)
(***************************************************************************)
EXTENDS Integers, Sequences, FiniteSets, TLC

\* ------------------------------------------------------------------ bounds
\* Facade operations invoked in one behaviour.
MaxOps == 3

\* ------------------------------------------------------------------ inputs
ServiceNames == {"app"}
ServiceIDs == {"svc"}
PromIDs == {"svc", "svc-prom"}
MonitorPorts == {9090, 9091}
TagLists == {<<>>, <<"a", "b">>}
Versions == {"", "v1"}
\* listen addresses: "h:80" and "h:x"
ListenAddrs == { <<"h", ":", "8", "0">>, <<"h", ":", "x">> }
\* process environments: sequences of "NAME=value" entries, an entry a
\* sequence of tokens
Environs ==
    { << <<"PATH", "=", "/bin">> >>,
      << <<"PATH", "=", "/bin">>, <<"CONSUL_", "HTTP_ADDR", "=", "localhost">> >> }

\* ------------------------------------------------------------------ errors
NoError == [nil |-> TRUE, format |-> "", id |-> "", text |-> ""]

NewError(text) == [nil |-> FALSE, format |-> "", id |-> "", text |-> text]

Errorf(format, id, cause) ==
    [nil |-> FALSE, format |-> format, id |-> id, text |-> cause.text]

\* errors.Error(): the message text of a plain error
ErrorText(err) == err.text

\* what a backend call can return
BackendResults == {NoError, NewError("connection refused")}
\* what the caller can observe and hand to SendHealthCheck
ObservedErrors == {NoError, NewError(""), NewError("boom")}

\* ------------------------------------------------------------------ strings
RECURSIVE Split(_, _)
Split(s, sep) ==
    IF \A i \in 1..Len(s) : s[i] # sep
    THEN <<s>>
    ELSE LET i == CHOOSE k \in 1..Len(s) :
                      s[k] = sep /\ \A j \in 1..(k - 1) : s[j] # sep
         IN <<SubSeq(s, 1, i - 1)>> \o Split(SubSeq(s, i + 1, Len(s)), sep)

Contains(s, sub) ==
    \E i \in 1..(Len(s) - Len(sub) + 1) : SubSeq(s, i, i + Len(sub) - 1) = sub

DigitVal ==
    ("0" :> 0) @@ ("1" :> 1) @@ ("2" :> 2) @@ ("3" :> 3) @@ ("4" :> 4) @@
    ("5" :> 5) @@ ("6" :> 6) @@ ("7" :> 7) @@ ("8" :> 8) @@ ("9" :> 9)

RECURSIVE DigitsValue(_)
DigitsValue(s) ==
    IF s = <<>> THEN 0
    ELSE 10 * DigitsValue(SubSeq(s, 1, Len(s) - 1)) + DigitVal[s[Len(s)]]

\* strconv.Atoi: an optional sign, then one or more decimal digits
Atoi(s) ==
    LET signed == s # <<>> /\ s[1] \in {"+", "-"}
        digits == IF signed THEN SubSeq(s, 2, Len(s)) ELSE s
    IN IF digits = <<>> \/ \E i \in 1..Len(digits) : digits[i] \notin DOMAIN DigitVal
       THEN [val |-> 0, err |-> NewError("invalid syntax")]
       ELSE [val |-> IF signed /\ s[1] = "-" THEN 0 - DigitsValue(digits)
                     ELSE DigitsValue(digits),
             err |-> NoError]

Second == 1

\* time.Duration.String for whole seconds
DurationString(d) ==
    IF d < 60 * Second THEN <<d, "s">>
    ELSE IF d < 3600 * Second THEN <<d \div 60, "m", d % 60, "s">>
    ELSE <<d \div 3600, "h", (d % 3600) \div 60, "m", d % 60, "s">>

\* ------------------------------------------------------------------ Broker (consul.go)
\* CheckOptions and Service values; an empty string field is <<>>
ZeroCheckOptions == [HTTP |-> <<>>, Interval |-> <<>>, TTL |-> <<>>]

\* api.AgentServiceRegistration.Check is a pointer: nil, or a check object
NilCheck == [nil |-> TRUE, HTTP |-> <<>>, Interval |-> <<>>, TTL |-> <<>>]

\* broker.Register that forgets to copy the TTL
brokerRegister_NoTTL(serviceData) ==
    [method |-> "ServiceRegister",
     reg |-> [Name |-> serviceData.Name,
              ID |-> serviceData.ID,
              Port |-> serviceData.Port,
              Tags |-> serviceData.Tags,
              Check |-> [nil |-> FALSE,
                         HTTP |-> serviceData.Check.HTTP,
                         Interval |-> serviceData.Check.Interval,
                         TTL |-> <<>>]]]

\* broker.Register: the registration handed to Agent().ServiceRegister
brokerRegister(serviceData) ==
    [method |-> "ServiceRegister",
     reg |-> [Name |-> serviceData.Name,
              ID |-> serviceData.ID,
              Port |-> serviceData.Port,
              Tags |-> serviceData.Tags,
              Check |-> [nil |-> FALSE,
                         HTTP |-> serviceData.Check.HTTP,
                         Interval |-> serviceData.Check.Interval,
                         TTL |-> serviceData.Check.TTL]]]

\* broker.Deregister
brokerDeregister(serviceID) ==
    [method |-> "ServiceDeregister", serviceID |-> serviceID]

\* broker.SendHealthCheck: PassTTL when the error text is empty, else FailTTL
brokerSendHealthCheck(serviceID, error) ==
    IF error = ""
    THEN [method |-> "PassTTL", checkID |-> <<"service:", serviceID>>, note |-> "ok"]
    ELSE [method |-> "FailTTL", checkID |-> <<"service:", serviceID>>, note |-> error]

\* the agent call a call on the Broker interface turns into
BrokerDispatch(c) ==
    CASE c.method = "Register" -> brokerRegister(c.service)
      [] c.method = "Deregister" -> brokerDeregister(c.serviceID)
      [] c.method = "SendHealthCheck" -> brokerSendHealthCheck(c.serviceID, c.error)

\* calls on the Broker interface, with the error the backend answers
CallRegister(serviceData, res) ==
    [method |-> "Register", service |-> serviceData, result |-> res]

CallDeregister(serviceID, res) ==
    [method |-> "Deregister", serviceID |-> serviceID, result |-> res]

CallSendHealthCheck(serviceID, error, res) ==
    [method |-> "SendHealthCheck", serviceID |-> serviceID, error |-> error,
     result |-> res]

\* the service id a Broker call is about
CallID(c) == IF c.method = "Register" THEN c.service.ID ELSE c.serviceID

\* ------------------------------------------------------------------ wrapper (part_000)
NilWrapper ==
    [nil |-> TRUE, isUseConsul |-> FALSE, serviceName |-> "", serviceID |-> "",
     servicePromID |-> "", servicePort |-> 0, monitorPort |-> 0,
     consulBroker |-> "nil"]

\* what a handler leaves behind: the wrapper's fields, its return value and
\* the Broker calls it made, in order
Outcome(wr, ret, calls) == [w |-> wr, ret |-> ret, calls |-> calls]

\* isUseConsul: some environment entry contains "CONSUL_"
isUseConsul(environ) ==
    \E i \in 1..Len(environ) : Contains(environ[i], <<"CONSUL_">>)

\* getServicePort: (port, err)
getServicePort(hostPort) ==
    LET colon == Split(hostPort, ":")
    IN IF Len(colon) < 2
       THEN [port |-> 0, err |-> NoError]
       ELSE LET a == Atoi(colon[2])
            IN IF ~a.err.nil
               THEN [port |-> a.val, err |-> a.err]
               ELSE [port |-> a.val, err |-> NoError]

\* NewWrapper, in the environment environ: (Wrapper, error)
NewWrapper(listen, consulBroker, serviceName, serviceID, environ) ==
    LET p == getServicePort(listen)
    IN IF ~p.err.nil
       THEN [w |-> NilWrapper,
             err |-> Errorf("can't parse service port %s", "", p.err)]
       ELSE [w |-> [nil |-> FALSE,
                    isUseConsul |-> isUseConsul(environ),
                    serviceName |-> serviceName,
                    serviceID |-> serviceID,
                    servicePromID |-> "",
                    servicePort |-> p.port,
                    monitorPort |-> 0,
                    consulBroker |-> consulBroker],
             err |-> NoError]

\* wrapper.StartMetrics that launches the goroutine only while no metrics
\* id has been stored
wrapperStartMetricsGo_Once(wr, monitorPort) ==
    IF ~wr.isUseConsul \/ wr.servicePromID # ""
    THEN <<>>
    ELSE <<[serviceName |-> wr.serviceName, port |-> monitorPort, at |-> "spawned"]>>

\* wrapper.StartMetrics, its go statement: the goroutines it launches
wrapperStartMetricsGo(wr, monitorPort) ==
    IF ~wr.isUseConsul
    THEN <<>>
    ELSE <<[serviceName |-> wr.serviceName, port |-> monitorPort, at |-> "spawned"]>>

\* wrapper.StartMetrics that stores the port and the id only once the
\* registration has succeeded
wrapperStartMetrics_StoreOnSuccess(wr, monitorPort, servicePromID, res) ==
    IF ~wr.isUseConsul THEN Outcome(wr, NoError, <<>>) ELSE
    LET w1 == [wr EXCEPT !.monitorPort = monitorPort,
                         !.servicePromID = servicePromID]
        promService == [Name |-> wr.serviceName,
                        ID |-> servicePromID,
                        Port |-> monitorPort,
                        Tags |-> <<"prom">>,
                        Check |-> ZeroCheckOptions]
    IN Outcome(IF ~res.nil THEN wr ELSE w1,
               IF ~res.nil
               THEN Errorf("can not register service %s in consul %v",
                           promService.ID, res)
               ELSE NoError,
               <<CallRegister(promService, res)>>)

\* wrapper.StartMetrics, the caller's side: the fields it sets, the
\* registration of the metrics service and the return value
wrapperStartMetrics(wr, monitorPort, servicePromID, res) ==
    IF ~wr.isUseConsul THEN Outcome(wr, NoError, <<>>) ELSE
    LET w1 == [wr EXCEPT !.monitorPort = monitorPort,
                         !.servicePromID = servicePromID]
        promService == [Name |-> wr.serviceName,
                        ID |-> servicePromID,
                        Port |-> monitorPort,
                        Tags |-> <<"prom">>,
                        Check |-> ZeroCheckOptions]
    IN Outcome(w1,
               IF ~res.nil
               THEN Errorf("can not register service %s in consul %v",
                           promService.ID, res)
               ELSE NoError,
               <<CallRegister(promService, res)>>)

\* wrapper.StopMetrics that deregisters the primary id
wrapperStopMetrics_PrimaryID(wr, res) ==
    IF ~wr.isUseConsul
    THEN Outcome(wr, NoError, <<>>)
    ELSE Outcome(wr,
                 IF ~res.nil
                 THEN Errorf("do not deregister consul service %s, got error %v",
                             wr.serviceID, res)
                 ELSE NoError,
                 <<CallDeregister(wr.serviceID, res)>>)

\* wrapper.StopMetrics
wrapperStopMetrics(wr, res) ==
    IF ~wr.isUseConsul
    THEN Outcome(wr, NoError, <<>>)
    ELSE Outcome(wr,
                 IF ~res.nil
                 THEN Errorf("do not deregister consul service %s, got error %v",
                             wr.servicePromID, res)
                 ELSE NoError,
                 <<CallDeregister(wr.servicePromID, res)>>)

\* wrapper.Register that puts the version before the caller's tags
wrapperRegister_VersionFirst(wr, tags, version, res) ==
    IF ~wr.isUseConsul
    THEN Outcome(wr, NoError, <<>>)
    ELSE LET tags1 == IF version # "" THEN <<version>> \o tags ELSE tags
             appService == [Name |-> wr.serviceName,
                            ID |-> wr.serviceID,
                            Port |-> wr.servicePort,
                            Tags |-> tags1,
                            Check |-> [HTTP |-> <<>>, Interval |-> <<>>,
                                       TTL |-> DurationString(5 * Second)]]
         IN Outcome(wr,
                    IF ~res.nil
                    THEN Errorf("do not deregister consul service %s, got error %v",
                                wr.serviceID, res)
                    ELSE NoError,
                    <<CallRegister(appService, res)>>)

\* wrapper.Register
wrapperRegister(wr, tags, version, res) ==
    IF ~wr.isUseConsul
    THEN Outcome(wr, NoError, <<>>)
    ELSE LET tags1 == IF version # "" THEN Append(tags, version) ELSE tags
             appService == [Name |-> wr.serviceName,
                            ID |-> wr.serviceID,
                            Port |-> wr.servicePort,
                            Tags |-> tags1,
                            Check |-> [HTTP |-> <<>>, Interval |-> <<>>,
                                       TTL |-> DurationString(5 * Second)]]
         IN Outcome(wr,
                    IF ~res.nil
                    THEN Errorf("do not deregister consul service %s, got error %v",
                                wr.serviceID, res)
                    ELSE NoError,
                    <<CallRegister(appService, res)>>)

\* wrapper.Deregister without the enablement test
wrapperDeregister_NoGuard(wr, res) ==
    Outcome(wr,
            IF ~res.nil
            THEN Errorf("do not deregister consul service %s, got error %v",
                        wr.serviceID, res)
            ELSE NoError,
            <<CallDeregister(wr.serviceID, res)>>)

\* wrapper.Deregister that tries once more when the backend fails
wrapperDeregister_Retry(wr, res) ==
    IF ~wr.isUseConsul
    THEN Outcome(wr, NoError, <<>>)
    ELSE Outcome(wr,
                 IF ~res.nil
                 THEN Errorf("do not deregister consul service %s, got error %v",
                             wr.serviceID, res)
                 ELSE NoError,
                 IF ~res.nil
                 THEN <<CallDeregister(wr.serviceID, res), CallDeregister(wr.serviceID, res)>>
                 ELSE <<CallDeregister(wr.serviceID, res)>>)

\* wrapper.Deregister that deregisters the metrics id
wrapperDeregister_PromID(wr, res) ==
    IF ~wr.isUseConsul
    THEN Outcome(wr, NoError, <<>>)
    ELSE Outcome(wr,
                 IF ~res.nil
                 THEN Errorf("do not deregister consul service %s, got error %v",
                             wr.servicePromID, res)
                 ELSE NoError,
                 <<CallDeregister(wr.servicePromID, res)>>)

\* wrapper.Deregister that hides the backend's error
wrapperDeregister_SwallowError(wr, res) ==
    IF ~wr.isUseConsul
    THEN Outcome(wr, NoError, <<>>)
    ELSE Outcome(wr, NoError, <<CallDeregister(wr.serviceID, res)>>)

\* wrapper.Deregister
wrapperDeregister(wr, res) ==
    IF ~wr.isUseConsul
    THEN Outcome(wr, NoError, <<>>)
    ELSE Outcome(wr,
                 IF ~res.nil
                 THEN Errorf("do not deregister consul service %s, got error %v",
                             wr.serviceID, res)
                 ELSE NoError,
                 <<CallDeregister(wr.serviceID, res)>>)

\* wrapper.SendHealthCheck that reports on the metrics id
wrapperSendHealthCheck_PromID(wr, err, res) ==
    IF ~wr.isUseConsul
    THEN Outcome(wr, NoError, <<>>)
    ELSE IF ~err.nil
         THEN Outcome(wr, IF ~res.nil THEN res ELSE NoError,
                      <<CallSendHealthCheck(wr.servicePromID, ErrorText(err), res)>>)
         ELSE Outcome(wr, IF ~res.nil THEN res ELSE NoError,
                      <<CallSendHealthCheck(wr.servicePromID, "", res)>>)

\* wrapper.SendHealthCheck: the backend's error is returned as it is
wrapperSendHealthCheck(wr, err, res) ==
    IF ~wr.isUseConsul
    THEN Outcome(wr, NoError, <<>>)
    ELSE IF ~err.nil
         THEN Outcome(wr, IF ~res.nil THEN res ELSE NoError,
                      <<CallSendHealthCheck(wr.serviceID, ErrorText(err), res)>>)
         ELSE Outcome(wr, IF ~res.nil THEN res ELSE NoError,
                      <<CallSendHealthCheck(wr.serviceID, "", res)>>)

\* ------------------------------------------------------------------ registry
AllIDs == ServiceIDs \cup PromIDs \cup {""}

\* the registry's record of a service id, as the agent calls that succeeded
\* leave it
ApplyCall(reg, c) ==
    IF ~c.result.nil THEN reg
    ELSE LET a == BrokerDispatch(c)
         IN CASE a.method = "ServiceRegister" ->
                   [reg EXCEPT !.status[a.reg.ID] = "Registered"]
              [] a.method = "ServiceDeregister" ->
                   [reg EXCEPT !.status[a.serviceID] = "Deregistered"]
              [] a.method = "PassTTL" ->
                   [reg EXCEPT !.health[a.checkID[2]] = "Passing"]
              [] a.method = "FailTTL" ->
                   [reg EXCEPT !.health[a.checkID[2]] = "Failing"]

RECURSIVE ApplyCalls(_, _)
ApplyCalls(reg, calls) ==
    IF calls = <<>> THEN reg
    ELSE ApplyCalls(ApplyCall(reg, Head(calls)), Tail(calls))

\* the ids of the Register calls among calls
RegisterIDs(calls) ==
    { calls[i].service.ID : i \in { j \in 1..Len(calls) : calls[j].method = "Register" } }

\* ------------------------------------------------------------------ state
VARIABLES
    environ,      \* the process environment
    given,        \* the arguments NewWrapper was called with
    w,            \* the wrapper
    newErr,       \* NewWrapper's error
    pc,           \* the caller: "idle", or inside "StartMetrics"
    frame,        \* the arguments of the StartMetrics call in progress
    runners,      \* the goroutines launched, each at "spawned", "handled" or "serving"
    muxHandled,   \* http.DefaultServeMux has the two patterns
    exited,       \* "" while the process runs, else why it ended
    last,         \* the last invocation that returned
    prev,         \* the one before it
    nOps,         \* invocations that returned
    nCalls,       \* calls the Broker received
    registered,   \* ids the Broker's Register calls carried
    promArg,      \* the id given to the last StartMetrics that returned ("" if none)
    consul        \* the registry: status and health per id

vars == <<environ, given, w, newErr, pc, frame, runners, muxHandled, exited,
          last, prev, nOps, nCalls, registered, promArg, consul>>

NoInvocation ==
    [op |-> "none", args |-> <<>>, ret |-> NoError, calls |-> <<>>, agent |-> <<>>]

NoFrame == [monitorPort |-> 0, servicePromID |-> ""]

Init ==
    \E e \in Environs, listen \in ListenAddrs, name \in ServiceNames, id \in ServiceIDs :
        LET r == NewWrapper(listen, "broker", name, id, e)
        IN /\ environ = e
           /\ given = [listen |-> listen, consulBroker |-> "broker",
                       serviceName |-> name, serviceID |-> id]
           /\ w = r.w
           /\ newErr = r.err
           /\ pc = "idle"
           /\ frame = NoFrame
           /\ runners = <<>>
           /\ muxHandled = FALSE
           /\ exited = ""
           /\ last = NoInvocation
           /\ prev = NoInvocation
           /\ nOps = 0
           /\ nCalls = 0
           /\ registered = {}
           /\ promArg = ""
           /\ consul = [status |-> [i \in AllIDs |-> "Unregistered"],
                        health |-> [i \in AllIDs |-> "None"]]

\* the caller holds a wrapper, the process runs, and no call is in progress
CanCall == ~w.nil /\ exited = "" /\ pc = "idle" /\ nOps < MaxOps

\* an invocation returns: its effects on the wrapper, the Broker and the registry
Return(op, args, out) ==
    /\ w' = out.w
    /\ prev' = last
    /\ last' = [op |-> op, args |-> args, ret |-> out.ret, calls |-> out.calls,
                agent |-> [i \in 1..Len(out.calls) |-> BrokerDispatch(out.calls[i])]]
    /\ nOps' = nOps + 1
    /\ nCalls' = nCalls + Len(out.calls)
    /\ registered' = registered \cup RegisterIDs(out.calls)
    /\ consul' = ApplyCalls(consul, out.calls)
    /\ UNCHANGED <<environ, given, newErr, muxHandled, exited>>

\* StartMetrics is called: the enablement test and the go statement
StartMetricsCall ==
    \E monitorPort \in MonitorPorts, servicePromID \in PromIDs :
        /\ CanCall
        /\ pc' = "StartMetrics"
        /\ frame' = [monitorPort |-> monitorPort, servicePromID |-> servicePromID]
        /\ runners' = runners \o wrapperStartMetricsGo(w, monitorPort)
        /\ UNCHANGED <<environ, given, w, newErr, muxHandled, exited, last, prev,
                       nOps, nCalls, registered, promArg, consul>>

\* StartMetrics that returns only once its goroutine serves
StartMetricsReturn_AfterListen ==
    \E res \in BackendResults :
        /\ pc = "StartMetrics" /\ exited = ""
        /\ \E i \in 1..Len(runners) : runners[i].at = "serving"
        /\ Return("StartMetrics", <<frame.monitorPort, frame.servicePromID>>,
                  wrapperStartMetrics(w, frame.monitorPort, frame.servicePromID, res))
        /\ pc' = "idle"
        /\ frame' = NoFrame
        /\ promArg' = frame.servicePromID
        /\ UNCHANGED runners

\* StartMetrics registers the metrics service and returns
StartMetricsReturn ==
    \E res \in BackendResults :
        /\ pc = "StartMetrics" /\ exited = ""
        /\ Return("StartMetrics", <<frame.monitorPort, frame.servicePromID>>,
                  wrapperStartMetrics(w, frame.monitorPort, frame.servicePromID, res))
        /\ pc' = "idle"
        /\ frame' = NoFrame
        /\ promArg' = frame.servicePromID
        /\ UNCHANGED runners

StopMetrics ==
    \E res \in BackendResults :
        /\ CanCall
        /\ Return("StopMetrics", <<>>, wrapperStopMetrics(w, res))
        /\ UNCHANGED <<pc, frame, runners, promArg>>

Register ==
    \E tags \in TagLists, version \in Versions, res \in BackendResults :
        /\ CanCall
        /\ Return("Register", <<tags, version>>, wrapperRegister(w, tags, version, res))
        /\ UNCHANGED <<pc, frame, runners, promArg>>

Deregister ==
    \E res \in BackendResults :
        /\ CanCall
        /\ Return("Deregister", <<>>, wrapperDeregister(w, res))
        /\ UNCHANGED <<pc, frame, runners, promArg>>

SendHealthCheck ==
    \E err \in ObservedErrors, res \in BackendResults :
        /\ CanCall
        /\ Return("SendHealthCheck", <<err>>, wrapperSendHealthCheck(w, err, res))
        /\ UNCHANGED <<pc, frame, runners, promArg>>

\* startMetricServer, http.Handle and http.HandleFunc: a pattern registered
\* twice on the default mux panics, and the panic ends the process
RunnerHandle ==
    \E i \in 1..Len(runners) :
        /\ exited = "" /\ runners[i].at = "spawned"
        /\ IF muxHandled
           THEN /\ exited' = "panic"
                /\ UNCHANGED <<runners, muxHandled>>
           ELSE /\ muxHandled' = TRUE
                /\ runners' = [runners EXCEPT ![i].at = "handled"]
                /\ UNCHANGED exited
        /\ UNCHANGED <<environ, given, w, newErr, pc, frame, last, prev, nOps,
                       nCalls, registered, promArg, consul>>

\* startMetricServer, http.ListenAndServe: it serves, or the listener cannot
\* be established and log.Fatal ends the process
RunnerListen ==
    \E i \in 1..Len(runners), bound \in BOOLEAN :
        /\ exited = "" /\ runners[i].at = "handled"
        /\ IF bound
           THEN /\ runners' = [runners EXCEPT ![i].at = "serving"]
                /\ UNCHANGED exited
           ELSE /\ exited' = "fatal"
                /\ UNCHANGED runners
        /\ UNCHANGED <<environ, given, w, newErr, pc, frame, muxHandled, last, prev,
                       nOps, nCalls, registered, promArg, consul>>

Next ==
    \/ StartMetricsCall
    \/ StartMetricsReturn
    \/ StopMetrics
    \/ Register
    \/ Deregister
    \/ SendHealthCheck
    \/ RunnerHandle
    \/ RunnerListen

Spec == Init /\ [][Next]_vars

\* ------------------------------------------------------------------ construction
\* The program's start: GetBroker, then NewWrapper with its result, for every
\* listen address up to MaxListenLen characters and environments of up to
\* MaxEnviron entries, which os.Setenv may extend between the two calls.
MaxListenLen == 5
MaxEnviron == 2

ListenChars == {"h", ":", "8", "9"}
ListenStrings == UNION { [1..n -> ListenChars] : n \in 0..MaxListenLen }

\* "PATH=/bin", "CONSUL_HTTP_ADDR=localhost", "DATA_DIR=/var/CONSUL_data"
EnvEntries ==
    { <<"PATH", "=", "/bin">>,
      <<"CONSUL_", "HTTP_ADDR", "=", "localhost">>,
      <<"DATA_DIR", "=", "/var/", "CONSUL_", "data">> }
StartEnvirons == { <<>> } \cup { <<e>> : e \in EnvEntries }

\* what api.NewClient can return
ClientErrors == {NoError, NewError("invalid config")}

\* NewBroker: (Broker, error)
NewBroker(clientErr) ==
    IF ~clientErr.nil
    THEN [broker |-> "nil", err |-> clientErr]
    ELSE [broker |-> "broker", err |-> NoError]

\* GetBroker, in the environment env: (Broker, error)
GetBroker(env, clientErr) ==
    IF ~isUseConsul(env)
    THEN [broker |-> "nil", err |-> NoError]
    ELSE NewBroker(clientErr)

InitNew ==
    \E e \in StartEnvirons, listen \in ListenStrings,
       name \in ServiceNames, id \in ServiceIDs :
        /\ environ = e
        /\ given = [listen |-> listen, consulBroker |-> "nil",
                    serviceName |-> name, serviceID |-> id]
        /\ w = NilWrapper
        /\ newErr = NoError
        /\ pc = "main"
        /\ frame = NoFrame
        /\ runners = <<>>
        /\ muxHandled = FALSE
        /\ exited = ""
        /\ last = NoInvocation
        /\ prev = NoInvocation
        /\ nOps = 0
        /\ nCalls = 0
        /\ registered = {}
        /\ promArg = ""
        /\ consul = [status |-> [i \in AllIDs |-> "Unregistered"],
                     health |-> [i \in AllIDs |-> "None"]]

\* the caller calls GetBroker and keeps its result; on an error it stops
CallGetBroker ==
    \E clientErr \in ClientErrors :
        LET r == GetBroker(environ, clientErr)
        IN /\ pc = "main" /\ exited = ""
           /\ given' = [given EXCEPT !.consulBroker = r.broker]
           /\ pc' = IF r.err.nil THEN "broker" ELSE "stopped"
           /\ UNCHANGED <<environ, w, newErr, frame, runners, muxHandled, exited,
                          last, prev, nOps, nCalls, registered, promArg, consul>>

\* os.Setenv between the two calls
Setenv ==
    \E e \in EnvEntries :
        /\ pc = "broker" /\ exited = ""
        /\ Len(environ) < MaxEnviron
        /\ environ' = Append(environ, e)
        /\ UNCHANGED <<given, w, newErr, pc, frame, runners, muxHandled, exited,
                       last, prev, nOps, nCalls, registered, promArg, consul>>

\* the caller calls NewWrapper with the broker it got
CallNewWrapper ==
    LET r == NewWrapper(given.listen, given.consulBroker, given.serviceName,
                        given.serviceID, environ)
    IN /\ pc = "broker" /\ exited = ""
       /\ w' = r.w
       /\ newErr' = r.err
       /\ pc' = "idle"
       /\ UNCHANGED <<environ, given, frame, runners, muxHandled, exited,
                      last, prev, nOps, nCalls, registered, promArg, consul>>

\* a lifecycle operation of an enabled wrapper whose consulBroker is nil:
\* the call on the nil interface panics
NilBrokerCall ==
    /\ pc = "idle" /\ exited = ""
    /\ ~w.nil /\ w.isUseConsul /\ w.consulBroker = "nil"
    /\ exited' = "panic"
    /\ UNCHANGED <<environ, given, w, newErr, pc, frame, runners, muxHandled,
                   last, prev, nOps, nCalls, registered, promArg, consul>>

NextNew ==
    \/ CallGetBroker
    \/ Setenv
    \/ CallNewWrapper
    \/ NilBrokerCall

SpecNew == InitNew /\ [][NextNew]_vars

\* ------------------------------------------------------------------ properties
Enabled == ~w.nil /\ w.isUseConsul

Disabled == ~w.nil /\ ~w.isUseConsul

\* C1: with the enablement flag false, every invocation returns nil, the
\* Broker has received no call and no metrics goroutine has been launched.
C1_DisabledIsNoOp ==
    Disabled =>
        /\ last.ret = NoError /\ prev.ret = NoError
        /\ last.calls = <<>> /\ prev.calls = <<>>
        /\ nCalls = 0
        /\ registered = {}
        /\ runners = <<>>

C1_Witness ==
    /\ Disabled /\ nOps >= 3
    /\ last.op = "StartMetrics" /\ prev.op = "Deregister"

\* C2 (as claimed): when enabled, an invocation whose Broker call returned an
\* error returns an error made by fmt.Errorf that carries the call's service
\* id and the text of the Broker's error, and is not the Broker's error itself.
C2_EveryFailureWrapped ==
    Enabled =>
        \A i \in 1..Len(last.calls) :
            ~last.calls[i].result.nil =>
                /\ ~last.ret.nil
                /\ last.ret.format # ""
                /\ last.ret.id = CallID(last.calls[i])
                /\ last.ret.text = last.calls[i].result.text
                /\ last.ret # last.calls[i].result

\* C3 (as claimed): when enabled, SendHealthCheck(err) makes the agent fail
\* the TTL check of the primary id with err's text for every non-nil err, and
\* pass it, with an empty message on the Broker call, only for a nil err.
C3_HealthSignal ==
    (Enabled /\ last.op = "SendHealthCheck") =>
        /\ Len(last.calls) = 1
        /\ last.calls[1].serviceID = given.serviceID
        /\ last.agent[1].checkID = <<"service:", given.serviceID>>
        /\ IF last.args[1].nil
           THEN last.agent[1].method = "PassTTL" /\ last.calls[1].error = ""
           ELSE /\ last.agent[1].method = "FailTTL"
                /\ last.agent[1].note = last.args[1].text

\* C4: when enabled, every invocation that returned made exactly one Broker
\* call, whatever the call answered: the Broker has received as many calls
\* as there were invocations.
C4_OneBackendCallPerInvocation ==
    Enabled =>
        /\ last.op # "none" => Len(last.calls) = 1
        /\ prev.op # "none" => Len(prev.calls) = 1
        /\ nCalls = nOps

C4_Witness ==
    /\ Enabled /\ nOps >= 2
    /\ ~last.ret.nil /\ ~prev.ret.nil
    /\ last.op = "Deregister" /\ prev.op = "Deregister"

\* C5: when enabled, Register(tags, version) hands the Broker one registration
\* with the name, id and port of construction, the caller's tags in order
\* followed by version when version is not empty, and a TTL check of "5s".
C5_RegisterRecord ==
    (Enabled /\ last.op = "Register") =>
        /\ Len(last.calls) = 1
        /\ last.calls[1].method = "Register"
        /\ last.calls[1].service =
              [Name |-> given.serviceName,
               ID |-> given.serviceID,
               Port |-> getServicePort(given.listen).port,
               Tags |-> IF last.args[2] = "" THEN last.args[1]
                        ELSE last.args[1] \o <<last.args[2]>>,
               Check |-> [HTTP |-> <<>>, Interval |-> <<>>, TTL |-> <<5, "s">>]]

C5_Witness ==
    /\ Enabled /\ last.op = "Register"
    /\ last.args = << <<"a", "b">>, "v1" >>
    /\ last.calls[1].service.Tags = <<"a", "b", "v1">>
    /\ prev.op = "StartMetrics"

\* C6: when enabled, StartMetrics(monitorPort, id) directly followed by
\* StopMetrics makes one Register call with that id, that port and the tags
\* ["prom"], and then one Deregister call with the same id.
C6_StartThenStop ==
    (Enabled /\ prev.op = "StartMetrics" /\ last.op = "StopMetrics") =>
        /\ Len(prev.calls) = 1
        /\ prev.calls[1].method = "Register"
        /\ prev.calls[1].service.ID = prev.args[2]
        /\ prev.calls[1].service.Port = prev.args[1]
        /\ prev.calls[1].service.Tags = <<"prom">>
        /\ Len(last.calls) = 1
        /\ last.calls[1].method = "Deregister"
        /\ last.calls[1].serviceID = prev.args[2]

C6_Witness ==
    /\ Enabled /\ prev.op = "StartMetrics" /\ last.op = "StopMetrics"
    /\ prev.args = <<9091, "svc-prom">>
    /\ given.serviceID = "svc"
    /\ last.calls[1].serviceID = "svc-prom"

\* C7 (as claimed): the registration the agent receives for the metrics
\* service carries no check at all.
C7_MetricsNoCheckAtAll ==
    (Enabled /\ last.op = "StartMetrics") =>
        \A i \in 1..Len(last.agent) : last.agent[i].reg.Check = NilCheck

\* C7 (amended): the metrics service leaves the facade with every field of
\* its check empty, and the registration the agent receives for it carries a
\* check object whose HTTP, Interval and TTL are all empty; the primary
\* service's check has the TTL "5s" at both places.
C7_MetricsCheckEmpty ==
    Enabled =>
        /\ last.op = "StartMetrics" =>
              /\ Len(last.calls) = 1
              /\ last.calls[1].service.Check = ZeroCheckOptions
              /\ last.agent[1].reg.Check =
                    [nil |-> FALSE, HTTP |-> <<>>, Interval |-> <<>>, TTL |-> <<>>]
        /\ last.op = "Register" =>
              /\ Len(last.calls) = 1
              /\ last.calls[1].service.Check.TTL = <<5, "s">>
              /\ last.agent[1].reg.Check =
                    [nil |-> FALSE, HTTP |-> <<>>, Interval |-> <<>>, TTL |-> <<5, "s">>]

C7_Witness ==
    /\ Enabled /\ last.op = "StartMetrics" /\ prev.op = "Register"
    /\ last.agent[1].method = "ServiceRegister"
    /\ ~last.agent[1].reg.Check.nil

\* C8 (as claimed): every Deregister or SendHealthCheck call the Broker
\* receives carries an id that an earlier Register call carried.
C8_IdsWereRegistered ==
    Enabled =>
        \A i \in 1..Len(last.calls) :
            last.calls[i].method \in {"Deregister", "SendHealthCheck"} =>
                CallID(last.calls[i]) \in registered

\* C8 (amended): the calls of Register, Deregister and SendHealthCheck carry
\* the serviceID given to the constructor; the call of StartMetrics carries
\* the id it was given, and the call of StopMetrics the id given to the last
\* StartMetrics, or the empty id when there was none.
C8_IdsFollowIdentity ==
    Enabled =>
        \A i \in 1..Len(last.calls) :
            /\ last.op \in {"Register", "Deregister", "SendHealthCheck"} =>
                  CallID(last.calls[i]) = given.serviceID
            /\ last.op = "StartMetrics" =>
                  CallID(last.calls[i]) = last.args[2] /\ promArg = last.args[2]
            /\ last.op = "StopMetrics" => CallID(last.calls[i]) = promArg

C8_Witness ==
    /\ Enabled /\ nOps = 3
    /\ Len(runners) = 2 /\ registered = {"svc", "svc-prom"}
    /\ last.op = "StopMetrics" /\ prev.op = "StartMetrics"
    /\ CallID(last.calls[1]) = prev.args[2]

\* C9 (as claimed): the primary id and the metrics id of a wrapper differ in
\* every state.
C9_IdsDiffer == ~w.nil => w.serviceID # w.servicePromID

\* C10 (as claimed): once an id is Deregistered it stays Deregistered.
C10_DeregisteredTerminal ==
    [][\A id \in AllIDs :
          consul.status[id] = "Deregistered" => consul'.status[id] = "Deregistered"]_vars

\* C10 (amended): an id becomes Registered only when a Register (for the
\* primary id) or a StartMetrics (for the id it was given) returns nil, and
\* Deregistered only when a Deregister (primary id) or a StopMetrics (id of
\* the last StartMetrics) returns nil, from whatever state it was in;
\* an invocation that returns an error and a SendHealthCheck leave every
\* id's status as it was, and SendHealthCheck changes the health of the
\* primary id only.
C10_LifecycleAxis ==
    [][/\ \A id \in AllIDs :
             consul'.status[id] # consul.status[id] =>
                 /\ nOps' = nOps + 1 /\ last'.ret.nil
                 /\ \/ /\ consul'.status[id] = "Registered"
                       /\ \/ last'.op = "Register" /\ id = given.serviceID
                          \/ last'.op = "StartMetrics" /\ id = last'.args[2]
                    \/ /\ consul'.status[id] = "Deregistered"
                       /\ \/ last'.op = "Deregister" /\ id = given.serviceID
                          \/ last'.op = "StopMetrics" /\ id = promArg
       /\ \A id \in AllIDs :
             consul'.health[id] # consul.health[id] =>
                 /\ nOps' = nOps + 1 /\ last'.ret.nil
                 /\ last'.op = "SendHealthCheck" /\ id = given.serviceID
                 /\ consul'.status = consul.status
                 /\ consul'.health[id] \in {"Passing", "Failing"}]_vars

C10_Witness ==
    /\ Enabled /\ nOps = 3
    /\ prev.op = "Deregister" /\ prev.ret.nil
    /\ last.op = "Register" /\ last.ret.nil
    /\ consul.status[given.serviceID] = "Registered"

\* C11: when enabled, an invocation that follows one that returned an error
\* still makes its one Broker call, with arguments fixed by the constructor's
\* arguments, its own arguments and the id given to the last StartMetrics
\* (whether that StartMetrics succeeded or not): the earlier failure changes
\* nothing in it.
C11_FailureDoesNotAlterLater ==
    (Enabled /\ ~prev.ret.nil /\ last.op # "none") =>
        /\ Len(last.calls) = 1
        /\ CASE last.op = "Register" ->
                  /\ last.calls[1].method = "Register"
                  /\ last.calls[1].service =
                        [Name |-> given.serviceName,
                         ID |-> given.serviceID,
                         Port |-> getServicePort(given.listen).port,
                         Tags |-> IF last.args[2] = "" THEN last.args[1]
                                  ELSE last.args[1] \o <<last.args[2]>>,
                         Check |-> [HTTP |-> <<>>, Interval |-> <<>>,
                                    TTL |-> <<5, "s">>]]
             [] last.op = "StartMetrics" ->
                  /\ last.calls[1].method = "Register"
                  /\ last.calls[1].service =
                        [Name |-> given.serviceName,
                         ID |-> last.args[2],
                         Port |-> last.args[1],
                         Tags |-> <<"prom">>,
                         Check |-> ZeroCheckOptions]
             [] last.op = "Deregister" ->
                  /\ last.calls[1].method = "Deregister"
                  /\ last.calls[1].serviceID = given.serviceID
             [] last.op = "StopMetrics" ->
                  /\ last.calls[1].method = "Deregister"
                  /\ last.calls[1].serviceID = promArg
             [] last.op = "SendHealthCheck" ->
                  /\ last.calls[1].method = "SendHealthCheck"
                  /\ last.calls[1].serviceID = given.serviceID
                  /\ last.calls[1].error =
                        (IF last.args[1].nil THEN "" ELSE last.args[1].text)

C11_Witness ==
    /\ Enabled /\ nOps = 3
    /\ prev.op = "Deregister" /\ ~prev.ret.nil
    /\ last.op = "StopMetrics"
    /\ promArg = "svc-prom"
    /\ last.calls[1].serviceID = "svc-prom"

\* C12: when enabled, a Deregister that follows a Deregister makes a
\* Deregister call for the primary id again and returns nil exactly when the
\* Broker answered nil, and otherwise an error with the text of the Broker's
\* error.
C12_SecondDeregisterNotMasked ==
    (Enabled /\ prev.op = "Deregister" /\ last.op = "Deregister") =>
        /\ Len(last.calls) = 1
        /\ last.calls[1].method = "Deregister"
        /\ last.calls[1].serviceID = given.serviceID
        /\ last.ret.nil <=> last.calls[1].result.nil
        /\ last.ret.text = last.calls[1].result.text

C12_Witness ==
    /\ Enabled /\ prev.op = "Deregister" /\ last.op = "Deregister"
    /\ prev.ret.nil
    /\ ~last.ret.nil /\ last.ret.text = "connection refused"

\* the operation a wrapped error's message names
FormatOperation(format) ==
    CASE format = "can not register service %s in consul %v" -> "register"
      [] format = "do not deregister consul service %s, got error %v" -> "deregister"
      [] OTHER -> "none"

\* C15 (as claimed): when enabled, the error an invocation returns names the
\* operation that failed: register for Register and StartMetrics, deregister
\* for Deregister and StopMetrics, a health report for SendHealthCheck.
C15_ErrorNamesOperation ==
    (Enabled /\ ~last.ret.nil) =>
        FormatOperation(last.ret.format) =
            (CASE last.op \in {"Register", "StartMetrics"} -> "register"
               [] last.op \in {"Deregister", "StopMetrics"} -> "deregister"
               [] last.op = "SendHealthCheck" -> "health report")

\* C16 (as claimed): at most one metrics goroutine is ever launched.
C16_AtMostOneRunnerLaunched == Len(runners) <= 1

\* C16 (amended): every StartMetrics call on an enabled wrapper launches one
\* more metrics goroutine; at most one of them ever has its handlers
\* registered or serves, since a later one finds the patterns taken and ends
\* the process.
C16_OneRunnerPerStartMetrics ==
    /\ [](Cardinality({ i \in 1..Len(runners) : runners[i].at # "spawned" }) <= 1)
    /\ [][(Enabled /\ pc = "idle" /\ pc' = "StartMetrics") =>
              Len(runners') = Len(runners) + 1]_vars
    /\ [][(Len(runners') # Len(runners)) =>
              (Enabled /\ pc = "idle" /\ pc' = "StartMetrics")]_vars

C16_Witness ==
    /\ Enabled /\ Len(runners) = 2
    /\ runners[1].at = "serving" /\ runners[2].at = "spawned"
    /\ exited = "panic"

\* C17: when enabled, StartMetrics can return whatever its goroutine is
\* doing, its return value is fixed by the answer to its Register call alone,
\* and the step in which the listener fails ends the process without any
\* invocation returning.
C17_StartMetricsDoesNotWait ==
    /\ []((pc = "StartMetrics" /\ exited = "") => ENABLED StartMetricsReturn)
    /\ []((Enabled /\ last.op = "StartMetrics") =>
             /\ Len(last.calls) = 1
             /\ last.ret =
                   (IF last.calls[1].result.nil THEN NoError
                    ELSE Errorf("can not register service %s in consul %v",
                                last.args[2], last.calls[1].result)))
    /\ [][(exited = "" /\ exited' # "") => UNCHANGED <<last, prev, nOps, w, pc>>]_vars

C17_Witness ==
    /\ Enabled /\ exited = "fatal"
    /\ last.op = "StartMetrics" /\ last.ret.nil
    /\ pc = "idle"

\* a segment that is one or more decimal digits
IsInteger(s) == s # <<>> /\ \A i \in 1..Len(s) : s[i] \in DOMAIN DigitVal

\* the name of an environment entry: what stands before its first "="
EntryName(entry) == Split(entry, "=")[1]

\* C13 (as claimed), for addresses with at most one colon: NewWrapper on an
\* address with no colon, or whose segment after the colon is not an integer,
\* returns an error and no wrapper; on "host:port" it returns a wrapper whose
\* port is that integer.
C13_MalformedListenFails ==
    (pc = "idle" /\ Len(Split(given.listen, ":")) <= 2) =>
        LET segs == Split(given.listen, ":")
        IN IF Len(segs) < 2 \/ ~IsInteger(segs[2])
           THEN ~newErr.nil /\ w.nil
           ELSE newErr.nil /\ ~w.nil /\ w.servicePort = DigitsValue(segs[2])

\* C14 (as claimed): the wrapper's enablement flag is true exactly when the
\* name of some environment entry contains "CONSUL_".
C14_EnabledIffNameHasMarker ==
    (pc = "idle" /\ ~w.nil) =>
        (w.isUseConsul <=>
            \E i \in 1..Len(environ) : Contains(EntryName(environ[i]), <<"CONSUL_">>))

\* C18 (as claimed): for an address with one or more colons, NewWrapper takes
\* the port from the segment after the last colon, and fails when that
\* segment is not an integer.
C18_PortAfterLastColon ==
    (pc = "idle" /\ Len(Split(given.listen, ":")) >= 2) =>
        LET segs == Split(given.listen, ":")
            final == segs[Len(segs)]
        IN IF IsInteger(final)
           THEN newErr.nil /\ ~w.nil /\ w.servicePort = DigitsValue(final)
           ELSE ~newErr.nil /\ w.nil

\* C19 (as claimed): a wrapper built from GetBroker's result whose
\* enablement flag is true has a broker that is not nil.
C19_EnabledHasBroker == Enabled => w.consulBroker # "nil"

====
